---- MODULE Spec2Model ----
(***************************************************************************)
(* The notes service of week_1: the HTTP server's handlers                 *)
(* (createNoteHandler, getNoteHandler) over the SyncMap `notes`, run by    *)
(* concurrent requests, and the patch message of the note_v1 RPC API.      *)
(***************************************************************************)
EXTENDS Integers, Sequences, FiniteSets, TLC

\* rand.Int63() draws from 0 .. MaxId - 1.
MaxId == 2
\* The wall clock runs from instant 1 to instant MaxClock.
MaxClock == 2

\* The HTTP requests, in flight or finished: three, so that one request can
\* follow two others (a create, a create that draws the same ID, a get).
Procs == {1, 2, 3}
IdSpace == 0..(MaxId - 1)
NoProc == 0

\* net/http status codes used by the handlers.
StatusOK == 200
StatusCreated == 201
StatusBadRequest == 400
StatusNotFound == 404
StatusInternalServerError == 500

----------------------------------------------------------------------------
\* Data types.

NoteInfo(title, context, author, isPublic) ==
    [Title |-> title, Context |-> context, Author |-> author, IsPublic |-> isPublic]

\* The zero value of NoteInfo, which Decode starts from.
ZeroInfo == NoteInfo("", "", "", FALSE)

\* The values a client fills a NoteInfo with (createNoteClient).
ClientInfos ==
    { NoteInfo("A", "B", "C", TRUE) }

NilNote == [nil |-> TRUE]

----------------------------------------------------------------------------
\* JSON and decimal conversions.

Malformed == [malformed |-> TRUE]

\* json.Marshal of a NoteInfo: one member per struct tag.
MarshalInfo(info) ==
    [title |-> info.Title, context |-> info.Context,
     author |-> info.Author, is_public |-> info.IsPublic]

\* The request bodies that arrive: what a client marshals, an object that
\* leaves members out, and bytes that are no JSON object.
Bodies ==
    { MarshalInfo(i) : i \in ClientInfos } \cup { [title |-> "Z"], Malformed }

DecodeOk(body) == body # Malformed

\* Decode into a zero NoteInfo: members present overwrite, others stay zero.
DecodeInfo(body) ==
    [Title    |-> IF "title" \in DOMAIN body THEN body.title ELSE ZeroInfo.Title,
     Context  |-> IF "context" \in DOMAIN body THEN body.context ELSE ZeroInfo.Context,
     Author   |-> IF "author" \in DOMAIN body THEN body.author ELSE ZeroInfo.Author,
     IsPublic |-> IF "is_public" \in DOMAIN body THEN body.is_public ELSE ZeroInfo.IsPublic]

\* time.Time rendered by its MarshalJSON (an RFC 3339 string).
FormatTime(t) == <<"RFC3339", t>>

\* Encode of a *Note: one member per struct tag of Note and NoteInfo.
EncodeNote(n) ==
    [id |-> n.ID, info |-> MarshalInfo(n.Info),
     created_at |-> FormatTime(n.CreatedAt), updated_at |-> FormatTime(n.UpdatedAt)]

\* The client's Decode of a response body into its own Note type.
ClientDecodeNote(w) ==
    [ID |-> w.id, Info |-> DecodeInfo(w.info),
     CreatedAt |-> w.created_at, UpdatedAt |-> w.updated_at]

Digit == [c \in {"0", "1", "2", "3", "4", "5", "6", "7", "8", "9"} |->
            CASE c = "0" -> 0 [] c = "1" -> 1 [] c = "2" -> 2 [] c = "3" -> 3
              [] c = "4" -> 4 [] c = "5" -> 5 [] c = "6" -> 6 [] c = "7" -> 7
              [] c = "8" -> 8 [] c = "9" -> 9]

DigitChar == <<"0", "1", "2", "3", "4", "5", "6", "7", "8", "9">>

RECURSIVE FormatNat(_)
FormatNat(n) ==
    IF n < 10 THEN <<DigitChar[n + 1]>>
    ELSE Append(FormatNat(n \div 10), DigitChar[(n % 10) + 1])

\* fmt.Sprintf("%d", id) of getNoteClient.
FormatInt(n) == IF n < 0 THEN <<"-">> \o FormatNat(0 - n) ELSE FormatNat(n)

RECURSIVE ParseDigits(_, _)
ParseDigits(s, acc) ==
    IF s = <<>> THEN acc
    ELSE ParseDigits(Tail(s), acc * 10 + Digit[Head(s)])

\* strconv.ParseInt(idStr, 10, 64): an optional sign, then one or more digits.
ParseIntOk(s) ==
    LET body == IF s # <<>> /\ Head(s) \in {"-", "+"} THEN Tail(s) ELSE s
    IN  body # <<>> /\ \A k \in 1..Len(body) : body[k] \in DOMAIN Digit

ParseIntValue(s) ==
    IF Head(s) = "-" THEN 0 - ParseDigits(Tail(s), 0)
    ELSE IF Head(s) = "+" THEN ParseDigits(Tail(s), 0)
    ELSE ParseDigits(s, 0)

\* parseNoteID: [ok, id], id 0 on error.
parseNoteID(idStr) ==
    IF ParseIntOk(idStr) THEN [ok |-> TRUE, id |-> ParseIntValue(idStr)]
    ELSE [ok |-> FALSE, id |-> 0]

\* The {id} path parameters that arrive.
IdStrs ==
    { FormatInt(i) : i \in IdSpace } \cup { <<"-", "1">>, <<"x">> }

----------------------------------------------------------------------------
\* http.ResponseWriter.

NoResponse == [status |-> 0, body |-> <<>>, visible |-> FALSE]

\* Only the first WriteHeader sets the status line.
WriteHeader(r, code) == IF r.status = 0 THEN [r EXCEPT !.status = code] ELSE r

\* Write sends the header with 200 if none was written, then the data.
Write(r, data) == [WriteHeader(r, StatusOK) EXCEPT !.body = Append(@, data)]

\* http.Error(w, msg, code).
HttpError(r, msg, code) == Write(WriteHeader(r, code), [text |-> msg])

----------------------------------------------------------------------------
\* State.

VARIABLES
    elems,      \* notes.elems: the map from ID to the stored Note
    m,          \* notes.m: the RWMutex, [w: the writer or NoProc, r: the readers]
    mapWriter,  \* the request whose map assignment is under way, or NoProc
    clock,      \* the wall clock time.Now() reads
    pc,         \* where each request's handler stands
    req,        \* the body each POST request carries
    note,       \* createNoteHandler's local note
    id,         \* getNoteHandler's local id
    resp,       \* each request's ResponseWriter, and whether the client has it
    from,       \* for a GET sent by the client's main: the POST it follows
    rpcNotes,   \* the notes behind the NoteV1 RPC service
    rpcLast     \* the last Update call of the RPC service and its outcome

httpVars == <<elems, m, mapWriter, pc, req, note, id, resp, from>>
rpcVars == <<rpcNotes, rpcLast>>
vars == <<httpVars, clock, rpcVars>>

NoRequest == [none |-> TRUE]
NoCall == [none |-> TRUE]

HttpInit ==
    /\ elems = <<>>
    /\ m = [w |-> NoProc, r |-> {}]
    /\ mapWriter = NoProc
    /\ clock = 1
    /\ pc = [p \in Procs |-> "idle"]
    /\ req = [p \in Procs |-> NoRequest]
    /\ note = [p \in Procs |-> NilNote]
    /\ id = [p \in Procs |-> 0]
    /\ resp = [p \in Procs |-> NoResponse]
    /\ from = [p \in Procs |-> NoProc]

Init ==
    /\ HttpInit
    /\ rpcNotes = <<>>
    /\ rpcLast = NoCall

\* Requests are numbered in the order the server accepts them.
Arrives(p) == pc[p] = "idle" /\ \A q \in Procs : q < p => pc[q] # "idle"

\* The handler returns: the server flushes what was written to the client.
Finish(r) == [r EXCEPT !.visible = TRUE]

----------------------------------------------------------------------------
\* sync.RWMutex and the map. Lock waits until no writer and no reader holds
\* the mutex, RLock until no writer holds it.

CanLock(p) == m.w = NoProc /\ m.r = {}
\* A reader that does not wait for the writer.
CanRLockAlways(p) == TRUE
CanRLock(p) == m.w = NoProc
Locked(p) == [m EXCEPT !.w = p]
Unlocked(p) == [m EXCEPT !.w = NoProc]
RLocked(p) == [m EXCEPT !.r = @ \cup {p}]
\* A return that leaves the read lock held.
RUnlockedSkipped(p) == m
RUnlocked(p) == [m EXCEPT !.r = @ \ {p}]

\* An assignment into a fresh map, which drops every other entry.
MapAssignFresh(mp, k, v) == [i \in {k} |-> v]

\* notes.elems[k] = v
MapAssign(mp, k, v) == [i \in DOMAIN mp \cup {k} |-> IF i = k THEN v ELSE mp[i]]

TornNote == [torn |-> TRUE]

\* note, ok := notes.elems[k]. A load that runs while an assignment is under
\* way is a data race: it may find anything.
MapLoad(mp, k) ==
    IF mapWriter # NoProc
    THEN { [ok |-> TRUE, note |-> TornNote], [ok |-> FALSE, note |-> NilNote] }
    ELSE IF k \in DOMAIN mp
         THEN { [ok |-> TRUE, note |-> mp[k]] }
         ELSE { [ok |-> FALSE, note |-> NilNote] }

----------------------------------------------------------------------------------------------------------------------------------------
\* createNoteHandler.

\* A note whose UpdatedAt is left at its zero value.
NewNoteStale(i, info, now) ==
    [ID |-> i, Info |-> info, CreatedAt |-> now, UpdatedAt |-> 0]

NewNote(i, info, now) ==
    [ID |-> i, Info |-> info, CreatedAt |-> now, UpdatedAt |-> now]

\* The response a create request has written once Encode returned.
createWritten(n, encOk) ==
    LET r == WriteHeader(NoResponse, StatusCreated)
    IN  IF encOk THEN Write(r, EncodeNote(n))
        ELSE HttpError(r, "encode", StatusInternalServerError)

\* Decode the body, or answer 400 and return; draw the ID, read the clock,
\* build the note; write 201 and the encoded note, or, if Encode fails,
\* http.Error and return. The generator is reseeded from the clock on every
\* request and shared by all of them: the ID is any value of its range.
createBegin(p) ==
    /\ Arrives(p)
    /\ \E body \in Bodies :
        /\ req' = [req EXCEPT ![p] = [body |-> body]]
        /\ IF ~DecodeOk(body)
           THEN /\ resp' = [resp EXCEPT ![p] =
                       Finish(HttpError(NoResponse, "decode", StatusBadRequest))]
                /\ pc' = [pc EXCEPT ![p] = "done"]
                /\ UNCHANGED <<note, clock>>
           ELSE \E i \in IdSpace, now \in clock..MaxClock, encOk \in BOOLEAN :
                LET n == NewNote(i, DecodeInfo(body), now) IN
                /\ clock' = now
                /\ IF encOk
                   THEN /\ resp' = [resp EXCEPT ![p] = createWritten(n, TRUE)]
                        /\ note' = [note EXCEPT ![p] = n]
                        /\ pc' = [pc EXCEPT ![p] = "c_lock"]
                   ELSE /\ resp' = [resp EXCEPT ![p] = Finish(createWritten(n, FALSE))]
                        /\ note' = note
                        /\ pc' = [pc EXCEPT ![p] = "done"]
    /\ UNCHANGED <<elems, m, mapWriter, id, from>>
    /\ UNCHANGED rpcVars

\* notes.m.Lock(), and the assignment notes.elems[note.ID] = note begins.
createLock(p) ==
    /\ pc[p] = "c_lock"
    /\ CanLock(p)
    /\ m' = Locked(p)
    /\ mapWriter' = p
    /\ pc' = [pc EXCEPT ![p] = "c_store"]
    /\ UNCHANGED <<elems, clock, req, note, id, resp, from>>
    /\ UNCHANGED rpcVars

\* The assignment completes and the handler returns: the deferred Unlock
\* runs and the server flushes the response.
createReturn(p) ==
    /\ pc[p] = "c_store"
    /\ elems' = MapAssign(elems, note[p].ID, note[p])
    /\ mapWriter' = NoProc
    /\ m' = Unlocked(p)
    /\ resp' = [resp EXCEPT ![p] = Finish(@)]
    /\ note' = [note EXCEPT ![p] = NilNote]
    /\ pc' = [pc EXCEPT ![p] = "done"]
    /\ UNCHANGED <<clock, req, id, from>>
    /\ UNCHANGED rpcVars

\* What the handler wrote may reach the client before the handler returns:
\* the server sends a body that outgrows its buffer as it is written.
Flush(p) ==
    /\ pc[p] \in {"c_lock", "c_store"}
    /\ ~resp[p].visible
    /\ resp' = [resp EXCEPT ![p] = Finish(@)]
    /\ UNCHANGED <<elems, m, mapWriter, clock, pc, req, note, id, from>>
    /\ UNCHANGED rpcVars

----------------------------------------------------------------------------
\* getNoteHandler.

\* The created note a client holds: createNoteClient needs 201 and a body
\* that decodes.
ClientHasNote(c) ==
    /\ resp[c].visible
    /\ resp[c].status = StatusCreated
    /\ resp[c].body # <<>>
    /\ "id" \in DOMAIN resp[c].body[1]

ClientNote(c) == ClientDecodeNote(resp[c].body[1])

\* The GET requests that can arrive: any path parameter, or the one main
\* formats from the note its POST returned.
GetRequests ==
    { [idStr |-> s, from |-> NoProc] : s \in IdStrs } \cup
    { [idStr |-> FormatInt(ClientNote(c).ID), from |-> c] :
        c \in { c \in Procs : ClientHasNote(c) } }

\* Parse the path parameter, or answer 400 and return.
getParse(p) ==
    /\ Arrives(p)
    /\ \E g \in GetRequests :
        LET r == parseNoteID(g.idStr) IN
        /\ from' = [from EXCEPT ![p] = g.from]
        /\ IF ~r.ok
           THEN /\ resp' = [resp EXCEPT ![p] =
                       Finish(HttpError(NoResponse, "Invalid note ID", StatusBadRequest))]
                /\ pc' = [pc EXCEPT ![p] = "done"]
                /\ UNCHANGED id
           ELSE /\ id' = [id EXCEPT ![p] = r.id]
                /\ pc' = [pc EXCEPT ![p] = "g_rlock"]
                /\ UNCHANGED resp
    /\ UNCHANGED <<elems, m, mapWriter, clock, req, note>>
    /\ UNCHANGED rpcVars

\* notes.m.RLock()
getRLock(p) ==
    /\ pc[p] = "g_rlock"
    /\ CanRLock(p)
    /\ m' = RLocked(p)
    /\ pc' = [pc EXCEPT ![p] = "g_read"]
    /\ UNCHANGED <<elems, mapWriter, clock, req, note, id, resp, from>>
    /\ UNCHANGED rpcVars

\* A handler that encodes whatever the lookup returned, found or not.
getWrittenIgnoringOk(found, encOk) ==
    Write(NoResponse, IF found.ok THEN EncodeNote(found.note) ELSE [null |-> TRUE])

\* The response a get request has written for what the lookup found.
getWritten(found, encOk) ==
    IF ~found.ok
    THEN HttpError(NoResponse, "Note not found", StatusNotFound)
    ELSE IF encOk
         THEN Write(NoResponse, IF found.note = TornNote THEN TornNote
                                ELSE EncodeNote(found.note))
         ELSE HttpError(WriteHeader(NoResponse, StatusOK),
                        "Failed to encode note data", StatusInternalServerError)

\* Look the note up; answer 404, the note, or the encoding error; return:
\* the deferred RUnlock runs and the server flushes the response.
getLookup(p) ==
    /\ pc[p] = "g_read"
    /\ \E found \in MapLoad(elems, id[p]), encOk \in BOOLEAN :
        /\ ~found.ok => encOk
        /\ resp' = [resp EXCEPT ![p] = Finish(getWritten(found, encOk))]
    /\ m' = RUnlocked(p)
    /\ id' = [id EXCEPT ![p] = 0]
    /\ pc' = [pc EXCEPT ![p] = "done"]
    /\ UNCHANGED <<elems, mapWriter, clock, req, note, from>>
    /\ UNCHANGED rpcVars

----------------------------------------------------------------------------

\* The steps of a handler that is running.
Step(p) ==
    \/ createLock(p)
    \/ createReturn(p)
    \/ getRLock(p)
    \/ getLookup(p)

Next ==
    \E p \in Procs :
        \/ createBegin(p)
        \/ getParse(p)
        \/ Step(p)
        \/ Flush(p)

Spec == Init /\ [][Next]_vars

\* A handler that is running is a goroutine the scheduler keeps running;
\* whether further requests arrive is up to the clients.
FairSpec == Spec /\ \A p \in Procs : WF_vars(Step(p))

----------------------------------------------------------------------------
\* The NoteV1 RPC service: Update.

PatchFields == {"title", "context", "author", "is_public"}

\* What a field left out of a proto3 message reads as.
ProtoDefault(f) == IF f = "is_public" THEN FALSE ELSE ""

\* The values callers set the fields of an UpdateNoteInfo to.
WireValues ==
    [title : {"", "Z"}, context : {""}, author : {""}, is_public : BOOLEAN]

\* The UpdateNoteInfo messages that arrive: any of the fields set, the
\* others left out.
UpdateMessages ==
    { [f \in D |-> full[f]] : full \in WireValues, D \in SUBSET PatchFields }

\* The message with plain string and bool fields, as NoteInfo has them: a
\* field left out reads as its default, as if the caller had set it.
UpdateNoteInfoScalars(msg) ==
    [f \in PatchFields |->
        [present |-> TRUE,
         value |-> IF f \in DOMAIN msg THEN msg[f] ELSE ProtoDefault(f)]]

\* message UpdateNoteInfo: every field is a google.protobuf wrapper message,
\* null when the caller left it out.
UpdateNoteInfo(msg) ==
    [f \in PatchFields |->
        [present |-> f \in DOMAIN msg,
         value |-> IF f \in DOMAIN msg THEN msg[f] ELSE ProtoDefault(f)]]

\* The field of a NoteInfo a message field names.
InfoField(info, f) ==
    CASE f = "title" -> info.Title
      [] f = "context" -> info.Context
      [] f = "author" -> info.Author
      [] f = "is_public" -> info.IsPublic

\* Update's patch: a present entry overwrites its field, an absent one
\* leaves it; updatedAt becomes now.
ApplyPatch(n, patch, now) ==
    LET new(f) == IF patch[f].present THEN patch[f].value ELSE InfoField(n.Info, f)
    IN  [ID |-> n.ID,
         Info |-> NoteInfo(new("title"), new("context"), new("author"), new("is_public")),
         CreatedAt |-> n.CreatedAt,
         UpdatedAt |-> now]

\* Update(id, patch): NotFound for an id that is not stored.
rpcUpdate ==
    /\ \E i \in IdSpace, msg \in UpdateMessages, now \in clock..MaxClock :
        IF i \in DOMAIN rpcNotes
        THEN LET n == ApplyPatch(rpcNotes[i], UpdateNoteInfo(msg), now) IN
             /\ rpcNotes' = MapAssign(rpcNotes, i, n)
             /\ clock' = now
             /\ rpcLast' = [id |-> i, msg |-> msg, status |-> "OK",
                            before |-> rpcNotes[i], after |-> n]
        ELSE /\ rpcLast' = [id |-> i, msg |-> msg, status |-> "NotFound",
                            before |-> NilNote, after |-> NilNote]
             /\ UNCHANGED <<rpcNotes, clock>>
    /\ UNCHANGED httpVars

\* The service holding one Note, as a Create at the first instant left it.
InitRpc ==
    /\ HttpInit
    /\ rpcLast = NoCall
    /\ rpcNotes \in { MapAssign(<<>>, i, NewNote(i, info, 1)) :
                        i \in IdSpace, info \in ClientInfos }

NextRpc == rpcUpdate

SpecRpc == InitRpc /\ [][NextRpc]_vars

\* C8: Update on a stored Note overwrites exactly the fields the message
\* sets, the empty string and false included, and leaves the fields the
\* message leaves out as they were; Update on an id that is not stored fails
\* with NotFound.
UpdateOverwritesPresentOnly ==
    rpcLast # NoCall =>
        IF rpcLast.before = NilNote
        THEN /\ rpcLast.status = "NotFound"
             /\ rpcLast.id \notin DOMAIN rpcNotes
        ELSE /\ rpcLast.status = "OK"
             /\ \A f \in PatchFields :
                    InfoField(rpcLast.after.Info, f) =
                        IF f \in DOMAIN rpcLast.msg THEN rpcLast.msg[f]
                        ELSE InfoField(rpcLast.before.Info, f)
             /\ rpcLast.after.ID = rpcLast.id

\* An Update that set title to "" and is_public to false and left context
\* and author out, on a Note whose fields were all non-empty and true.
UpdateOverwritesPresentOnlyWitness ==
    /\ rpcLast # NoCall
    /\ rpcLast.status = "OK"
    /\ DOMAIN rpcLast.msg = {"title", "is_public"}
    /\ rpcLast.msg["title"] = "" /\ rpcLast.msg["is_public"] = FALSE
    /\ rpcLast.before.Info = NoteInfo("A", "B", "C", TRUE)
    /\ rpcLast.after.Info = NoteInfo("", "B", "C", FALSE)

----------------------------------------------------------------------------
\* Properties of the HTTP server.

\* The notes under the IDs a response body carries.
IsNoteBody(r) == r.body # <<>> /\ "id" \in DOMAIN r.body[1]

\* C1: the IDs returned to the callers of Create are pairwise distinct and
\* non-negative.
CreatedIdsDistinct ==
    \A p, q \in Procs :
        ClientHasNote(p) =>
            /\ ClientNote(p).ID >= 0
            /\ (q # p /\ ClientHasNote(q)) => ClientNote(q).ID # ClientNote(p).ID

\* C2: a Create never alters a Note that is already stored: every ID stored
\* before a step is stored after it, with the same Note.
CreateKeepsStoredNotes ==
    [][\A i \in DOMAIN elems : i \in DOMAIN elems' /\ elems'[i] = elems[i]]_vars

\* C3: a Get of the ID a Create returned succeeds and returns that ID and the
\* NoteInfo the caller gave, field for field.
GetAfterCreateRoundTrips ==
    \A q \in Procs :
        (pc[q] = "done" /\ from[q] # NoProc) =>
            /\ resp[q].status = StatusOK
            /\ IsNoteBody(resp[q])
            /\ ClientDecodeNote(resp[q].body[1]).ID = ClientNote(from[q]).ID
            /\ \A info \in ClientInfos :
                req[from[q]].body = MarshalInfo(info) =>
                    ClientDecodeNote(resp[q].body[1]).Info = info

\* C4: a Get whose lookup finds no Note under its id answers 404 with no
\* Note, and leaves the stored Notes as they were.
GetAbsentIsNotFound ==
    [][\A p \in Procs :
        (pc[p] = "g_read" /\ pc'[p] = "done" /\ id[p] \notin DOMAIN elems) =>
            /\ resp'[p].status = StatusNotFound
            /\ resp'[p].body = <<[text |-> "Note not found"]>>
            /\ elems' = elems]_vars

GetAbsentIsNotFoundWitness ==
    \E p \in Procs :
        /\ pc[p] = "done"
        /\ resp[p].status = StatusNotFound
        /\ elems # <<>>

\* C5: while a Create assigns to the map it holds the lock alone, with no
\* other writer and no reader; a Get reads only while it holds the read
\* lock and no assignment is under way; no Get returns a torn Note.
WritersExcludeReaders ==
    /\ mapWriter # NoProc => (m.w = mapWriter /\ m.r = {})
    /\ \A p, q \in Procs : (pc[p] = "c_store" /\ pc[q] = "c_store") => p = q
    /\ \A p \in Procs : pc[p] = "c_store" => (m.w = p /\ mapWriter = p)
    /\ \A p \in Procs : pc[p] = "g_read" => (p \in m.r /\ mapWriter = NoProc)
    /\ \A p \in Procs : resp[p].body # <<>> => resp[p].body[1] # TornNote

\* Two Gets read at the same time while a Create waits for the lock.
WritersExcludeReadersWitness ==
    \E p, q, w \in Procs :
        /\ p # q
        /\ pc[p] = "g_read" /\ pc[q] = "g_read"
        /\ pc[w] = "c_lock"

HoldsLock(p) == m.w = p \/ p \in m.r

\* A request that waits for the store lock or holds it.
InLock(p) == pc[p] \in {"c_lock", "c_store", "g_rlock", "g_read"}

\* C6: a request that is done never holds the store lock, whatever path its
\* handler left by; and whenever requests wait for the lock or hold it, the
\* lock eventually is free with none of them waiting.
LockAlwaysReleased ==
    /\ [](\A p \in Procs : pc[p] = "done" => ~HoldsLock(p))
    /\ (\E p \in Procs : InLock(p))
            ~> (m.w = NoProc /\ m.r = {} /\ \A p \in Procs : ~InLock(p))

\* A Get has left by the not-found path, and a Create that arrived after
\* it holds the lock.
LockAlwaysReleasedWitness ==
    \E p, w \in Procs :
        /\ pc[p] = "done" /\ resp[p].status = StatusNotFound
        /\ p < w
        /\ pc[w] = "c_store" /\ m.w = w

\* C7: Create gives the new Note one instant as CreatedAt and UpdatedAt, and
\* every stored Note has UpdatedAt >= CreatedAt.
TimestampsOrdered ==
    /\ \A p \in Procs : note[p] # NilNote => note[p].UpdatedAt = note[p].CreatedAt
    /\ \A i \in DOMAIN elems :
        /\ elems[i].UpdatedAt >= elems[i].CreatedAt
        /\ elems[i].CreatedAt >= 1

TimestampsOrderedWitness ==
    \E i, j \in DOMAIN elems : elems[i].CreatedAt < elems[j].CreatedAt

\* C9: no caller holds the response for a created Note whose ID is not in
\* the store.
RespondedNoteIsStored ==
    \A p \in Procs : ClientHasNote(p) => ClientNote(p).ID \in DOMAIN elems

\* C10: when a Create request completes, a body that does not decode has
\* given 400 and a response that does not encode 500, both with the store
\* as it was; and 201 has the Note in the store.
CreateAllOrNothing ==
    [][\A p \in Procs :
        (pc[p] # "done" /\ pc'[p] = "done" /\ req'[p] # NoRequest) =>
            /\ ~DecodeOk(req'[p].body) =>
                (resp'[p].status = StatusBadRequest /\ elems' = elems)
            /\ resp'[p].body[1] = [text |-> "encode"] =>
                (resp'[p].status = StatusInternalServerError /\ elems' = elems)
            /\ resp'[p].status = StatusCreated =>
                /\ IsNoteBody(resp'[p])
                /\ resp'[p].body[1].id \in DOMAIN elems'
                /\ EncodeNote(elems'[resp'[p].body[1].id]) = resp'[p].body[1]]_vars

\* A Get that is done and has returned the Note stored under x.
GetSucceeded(q, x) ==
    /\ pc[q] = "done"
    /\ req[q] = NoRequest
    /\ resp[q].status = StatusOK
    /\ IsNoteBody(resp[q])
    /\ resp[q].body[1].id = x

====
